---- MODULE Spec2Model ----
(***************************************************************************)
(* A model of the PiNet API (app.py): a Flask application with three       *)
(* routes (GET /, GET /ping/<ip_address>, POST /wol), an API-key           *)
(* decorator, two input validators and three error handlers.               *)
(*                                                                         *)
(* Representation.  A Python str is a sequence of one-character strings.   *)
(* A Python value (a JSON value, an argument of a validator) is a record   *)
(* [t, s, n]: t is the type ("none", "str", "int", "bool", "list"), s the  *)
(* characters of a str, n the value of an int or bool or the length of a   *)
(* list.  A response is [code, body], body a record holding the keys of    *)
(* the JSON object; a message is a sequence of text pieces, so that an     *)
(* f-string is the concatenation of its literal with the interpolated      *)
(* characters.                                                             *)
(*                                                                         *)
(* Flask's own behaviour is modelled as Flask 2.1 and later behave: an     *)
(* errorhandler(Exception) handles every HTTPException that has no         *)
(* handler registered for its code, and request.get_json() raises an       *)
(* HTTPException when the body is not JSON.  Its routing is that of        *)
(* Werkzeug 2.2 and later: a rule with GET takes HEAD as well, every rule  *)
(* takes OPTIONS and Flask answers it itself, slashes in front of the path *)
(* are dropped before matching, a path with a trailing slash its rule has  *)
(* not matches nothing, and a path with doubled slashes further on is      *)
(* redirected to the merged path when that one matches.  Flask(__name__)   *)
(* adds the rule '/static/<path:filename>'; the repository has no static   *)
(* folder, so no file is ever found there.                                 *)
(***************************************************************************)
EXTENDS Naturals, Sequences, FiniteSets

VARIABLES
    API_KEY,     \* the configured key (app.py:38), loaded once
    pc,          \* per worker: "idle", "received", "ping", "wol", "responded"
    req,         \* per worker: the request being served
    resp,        \* per worker: the response, once there is one
    ran,         \* per worker: the wrapped handler f was called (app.py:69)
    ext,         \* per worker: the external operations this request started
    outcome,     \* per worker: how the external operation ended
    ipArg,       \* the argument of a call of validate_ip_address
    ipResult,    \* <<>> before the call, <<its return value>> after
    macArg,      \* the argument of a call of validate_mac_address
    macResult,   \* <<>> before the call, <<its return value>> after
    last         \* the request answered last, with its outcome and response

serverVars == <<API_KEY, pc, req, resp, ran, ext, outcome>>
ipVars == <<ipArg, ipResult>>
macVars == <<macArg, macResult>>
vars == <<API_KEY, pc, req, resp, ran, ext, outcome, ipArg, ipResult, macArg, macResult, last>>

-----------------------------------------------------------------------------
(* Python values and str operations *)

PyNone == [t |-> "none", s |-> <<>>, n |-> 0]
PyStr(chars) == [t |-> "str", s |-> chars, n |-> 0]
PyInt(k) == [t |-> "int", s |-> <<>>, n |-> k]
PyBool(b) == [t |-> "bool", s |-> <<>>, n |-> IF b THEN 1 ELSE 0]
PyList(len) == [t |-> "list", s |-> <<>>, n |-> len]

\* Python's truth value of an object, as `not x` tests it.
Truthy(v) ==
    CASE v.t = "none" -> FALSE
      [] v.t = "str" -> v.s # <<>>
      [] OTHER -> v.n # 0

\* The 29 characters str.strip() removes: those str.isspace() holds for.
\* U+0009..U+000D, U+001C..U+001F, U+0020, U+0085, U+00A0 and U+1680 stand
\* for themselves (U+000B, the control characters and the no-break space are
\* written as they are between the quotes).  A string literal cannot hold
\* U+2000..U+200A, U+2028, U+2029, U+202F, U+205F and U+3000: each of them is
\* the one element "U+xxxx" of a str, named by its code point.
Whitespace ==
    { "\t", "\n", "", "\f", "\r", "", "", "", "", " ", "", " ", " ",
      "U+2000", "U+2001", "U+2002", "U+2003", "U+2004", "U+2005", "U+2006",
      "U+2007", "U+2008", "U+2009", "U+200A", "U+2028", "U+2029", "U+202F",
      "U+205F", "U+3000" }

RECURSIVE lstrip(_)
lstrip(s) == IF s # <<>> /\ Head(s) \in Whitespace THEN lstrip(Tail(s)) ELSE s

RECURSIVE rstrip(_)
rstrip(s) ==
    IF s # <<>> /\ s[Len(s)] \in Whitespace
    THEN rstrip(SubSeq(s, 1, Len(s) - 1))
    ELSE s

strip(s) == rstrip(lstrip(s))

\* The character at position i, "" past either end.
At(s, i) == IF i \in 1..Len(s) THEN s[i] ELSE ""

Digits == {"0", "1", "2", "3", "4", "5", "6", "7", "8", "9"}
HexDigits == Digits \cup {"A", "B", "C", "D", "E", "F", "a", "b", "c", "d", "e", "f"}

\* Regex `$` (no MULTILINE): at the end, or just before a final newline.
AtDollar(s, i) == i = Len(s) + 1 \/ (i = Len(s) /\ s[i] = "\n")

-----------------------------------------------------------------------------
(* validate_ip_address, app.py:77-96 *)

\* (?:25[0-5]|2[0-4][0-9]|[01]?[0-9][0-9]?) tried at position i: the set of
\* positions a match can end before (the matcher backtracks over all of them).
OctetEnds(s, i) ==
    LET alt1 == IF At(s, i) = "2" /\ At(s, i + 1) = "5"
                   /\ At(s, i + 2) \in {"0", "1", "2", "3", "4", "5"}
                THEN {i + 3} ELSE {}
        alt2 == IF At(s, i) = "2" /\ At(s, i + 1) \in {"0", "1", "2", "3", "4"}
                   /\ At(s, i + 2) \in Digits
                THEN {i + 3} ELSE {}
        lead == {i} \cup (IF At(s, i) \in {"0", "1"} THEN {i + 1} ELSE {})
        one == {p + 1 : p \in {q \in lead : At(s, q) \in Digits}}
        two == one \cup {p + 1 : p \in {q \in one : At(s, q) \in Digits}}
    IN alt1 \cup alt2 \cup two

\* One repetition of (?:octet\.) from each position of from.
OctetDot(s, from) ==
    UNION {{j + 1 : j \in {e \in OctetEnds(s, p) : At(s, e) = "."}} : p \in from}

\* ipv4_pattern.match(s): ^(?:octet\.){3}octet$
ipv4_pattern_match(s) ==
    LET three == OctetDot(s, OctetDot(s, OctetDot(s, {1})))
    IN \E p \in three : \E e \in OctetEnds(s, p) : AtDollar(s, e)

\* A variant that matches the argument as given, without strip().
validate_ip_address_unstripped(ip_address) ==
    IF ~Truthy(ip_address) \/ ip_address.t # "str"
    THEN FALSE
    ELSE ipv4_pattern_match(ip_address.s)

validate_ip_address(ip_address) ==
    IF ~Truthy(ip_address) \/ ip_address.t # "str"
    THEN FALSE
    ELSE ipv4_pattern_match(strip(ip_address.s))

-----------------------------------------------------------------------------
(* validate_mac_address, app.py:98-122 *)

\* ([0-9A-Fa-f]{2}<sep>){5}[0-9A-Fa-f]{2}$ from position 1.
mac_grouped_match(s, sep) ==
    /\ \A k \in 0..5 : At(s, 3 * k + 1) \in HexDigits /\ At(s, 3 * k + 2) \in HexDigits
    /\ \A k \in 0..4 : At(s, 3 * k + 3) = sep
    /\ AtDollar(s, 18)

\* [0-9A-Fa-f]{12}$ from position 1.
mac_bare_match(s) ==
    /\ \A k \in 1..12 : At(s, k) \in HexDigits
    /\ AtDollar(s, 13)

\* A variant whose pattern takes either separator at each place: [:-].
validate_mac_address_either_separator(mac_address) ==
    IF ~Truthy(mac_address) \/ mac_address.t # "str"
    THEN FALSE
    ELSE LET m == strip(mac_address.s)
         IN \/ /\ \A k \in 0..5 : At(m, 3 * k + 1) \in HexDigits /\ At(m, 3 * k + 2) \in HexDigits
               /\ \A k \in 0..4 : At(m, 3 * k + 3) \in {":", "-"}
               /\ AtDollar(m, 18)
            \/ mac_bare_match(m)

validate_mac_address(mac_address) ==
    IF ~Truthy(mac_address) \/ mac_address.t # "str"
    THEN FALSE
    ELSE LET m == strip(mac_address.s)
         IN mac_grouped_match(m, ":") \/ mac_grouped_match(m, "-") \/ mac_bare_match(m)

-----------------------------------------------------------------------------
(* Requests, responses, external operations *)

Workers == {"w1", "w2"}

\* A response: jsonify(body), code.
Response(code, body) == [code |-> code, body |-> body]
ErrorBody(message) == [status |-> "error", message |-> <<message>>]
NoResp == Response(0, [status |-> "none"])

NoOutcome == [kind |-> "none", code |-> 0, detail |-> ""]

\* What a handler does next: answer, start an external operation, or let an
\* exception escape to Flask.
Respond(r) == [act |-> "respond", resp |-> r, arg |-> <<>>, ran |-> FALSE]
Call(op, a) == [act |-> op, resp |-> NoResp, arg |-> a, ran |-> FALSE]
Raise(exc) == [act |-> "raise", resp |-> NoResp, arg |-> <<exc>>, ran |-> FALSE]

\* subprocess.run(['ping', '-c', '1', '-W', '2', ip_address], timeout=5), app.py:167-172
PingCall(ip_address) ==
    [op |-> "subprocess.run",
     argv |-> <<<<"p", "i", "n", "g">>, <<"-", "c">>, <<"1">>, <<"-", "W">>, <<"2">>,
                ip_address>>,
     timeout |-> 5]

\* send_magic_packet(mac_address), app.py:243
WolCall(mac_address) ==
    [op |-> "send_magic_packet", argv |-> <<mac_address>>, timeout |-> 0]

-----------------------------------------------------------------------------
(* require_api_key, app.py:52-71 *)

\* request.headers.get('X-API-Key'): the header is <<>> when absent, <<v>>
\* when present with value v.  "pass" stands for `return f(*args, **kwargs)`.
\* A variant that only tests that a key was sent.
require_api_key_any(header, api_key) ==
    IF header = <<>> \/ header[1] = ""
    THEN Respond(Response(401, ErrorBody("API key required")))
    ELSE [act |-> "pass", resp |-> NoResp, arg |-> <<>>, ran |-> TRUE]

\* A variant whose first test is `provided_key is None`.
require_api_key_is_none(header, api_key) ==
    IF header = <<>>
    THEN Respond(Response(401, ErrorBody("API key required")))
    ELSE IF header[1] # api_key
    THEN Respond(Response(401, ErrorBody("Invalid API key")))
    ELSE [act |-> "pass", resp |-> NoResp, arg |-> <<>>, ran |-> TRUE]

require_api_key(header, api_key) ==
    IF header = <<>> \/ header[1] = ""
    THEN Respond(Response(401, ErrorBody("API key required")))
    ELSE IF header[1] # api_key
    THEN Respond(Response(401, ErrorBody("Invalid API key")))
    ELSE [act |-> "pass", resp |-> NoResp, arg |-> <<>>, ran |-> TRUE]

-----------------------------------------------------------------------------
(* health_check, app.py:128-140 *)

health_check == Respond(Response(200, [service |-> "PiNet API", status |-> "running"]))

-----------------------------------------------------------------------------
(* ping_host, app.py:142-200 *)

\* A variant that answers from the result kept of the last ping of the address.
ping_host_begin_cached(ip_address) ==
    IF Len(last.req.path) = 2 /\ last.req.path[2] = ip_address /\ last.resp.code = 200
    THEN Respond(last.resp)
    ELSE IF ~validate_ip_address(PyStr(ip_address))
    THEN Respond(Response(400, ErrorBody("Invalid IP address format.")))
    ELSE Call("ping", ip_address)

\* A variant that calls subprocess.run without validating.
ping_host_begin_unvalidated(ip_address) == Call("ping", ip_address)

\* Up to the call of subprocess.run.
ping_host_begin(ip_address) ==
    IF ~validate_ip_address(PyStr(ip_address))
    THEN Respond(Response(400, ErrorBody("Invalid IP address format.")))
    ELSE Call("ping", ip_address)

\* A variant without the `except subprocess.TimeoutExpired` clause.
ping_host_complete_no_timeout_clause(ip_address, o) ==
    CASE o.kind = "exit" /\ o.code = 0 ->
            Response(200, [ip_address |-> ip_address, status |-> "online"])
      [] o.kind = "exit" /\ o.code # 0 ->
            Response(200, [ip_address |-> ip_address, status |-> "offline"])
      [] OTHER ->
            Response(500, ErrorBody("Internal error executing ping"))

\* A variant that returns str(e) to the client.
ping_host_complete_leaky(ip_address, o) ==
    CASE o.kind = "exit" /\ o.code = 0 ->
            Response(200, [ip_address |-> ip_address, status |-> "online"])
      [] o.kind = "exit" /\ o.code # 0 ->
            Response(200, [ip_address |-> ip_address, status |-> "offline"])
      [] o.kind = "timeout" ->
            Response(200, [ip_address |-> ip_address, status |-> "offline"])
      [] OTHER ->
            Response(500, [status |-> "error", message |-> <<o.detail>>])

\* From the return (or the exception) of subprocess.run.
ping_host_complete(ip_address, o) ==
    CASE o.kind = "exit" /\ o.code = 0 ->
            Response(200, [ip_address |-> ip_address, status |-> "online"])
      [] o.kind = "exit" /\ o.code # 0 ->
            Response(200, [ip_address |-> ip_address, status |-> "offline"])
      [] o.kind = "timeout" ->
            Response(200, [ip_address |-> ip_address, status |-> "offline"])
      [] OTHER ->
            Response(500, ErrorBody("Internal error executing ping"))

-----------------------------------------------------------------------------
(* wake_on_lan, app.py:202-256 *)

\* request.get_json(), app.py:215.  It raises when the Content-Type is not
\* JSON and when the body does not parse; otherwise it returns the value.
get_json_raises(body) == body.ctype # "json" \/ body.kind \in {"absent", "malformed"}

\* Python's truth value of the parsed body.
DataTruthy(body) ==
    CASE body.kind = "null" -> FALSE
      [] body.kind = "object" -> body.fields # <<>>
      [] OTHER -> body.n # 0

\* dict.get(key): the value, None when the key is absent.
dict_get(fields, key) ==
    IF \E i \in 1..Len(fields) : fields[i].key = key
    THEN fields[CHOOSE i \in 1..Len(fields) : fields[i].key = key].val
    ELSE PyNone

\* A variant that sends the stripped address.
wake_on_lan_begin_stripping(body) ==
    IF get_json_raises(body) THEN Raise("HTTPException")
    ELSE IF ~DataTruthy(body)
    THEN Respond(Response(400, ErrorBody("Request body must be JSON")))
    ELSE IF body.kind # "object" THEN Raise("AttributeError")
    ELSE LET mac_address == dict_get(body.fields, "mac_address")
         IN IF ~Truthy(mac_address)
            THEN Respond(Response(400,
                     ErrorBody("Missing mac_address field in request body")))
            ELSE IF ~validate_mac_address(mac_address)
            THEN Respond(Response(400, ErrorBody("Invalid MAC address format.")))
            ELSE Call("wol", strip(mac_address.s))

\* Up to the call of send_magic_packet.
wake_on_lan_begin(body) ==
    IF get_json_raises(body) THEN Raise("HTTPException")
    ELSE IF ~DataTruthy(body)
    THEN Respond(Response(400, ErrorBody("Request body must be JSON")))
    ELSE IF body.kind # "object" THEN Raise("AttributeError")
    ELSE LET mac_address == dict_get(body.fields, "mac_address")
         IN IF ~Truthy(mac_address)
            THEN Respond(Response(400,
                     ErrorBody("Missing mac_address field in request body")))
            ELSE IF ~validate_mac_address(mac_address)
            THEN Respond(Response(400, ErrorBody("Invalid MAC address format.")))
            ELSE Call("wol", mac_address.s)

\* From the return (or the exception) of send_magic_packet.
wake_on_lan_complete(mac_address, o) ==
    IF o.kind = "sent"
    THEN Response(200, [status |-> "success",
                        message |-> <<"Wake-on-LAN packet sent to ">> \o mac_address])
    ELSE Response(500, ErrorBody("Failed to send Wake-on-LAN packet"))

-----------------------------------------------------------------------------
(* Error handlers, app.py:262-287 *)

not_found == Response(404, ErrorBody("Endpoint not found"))
internal_error == Response(500, ErrorBody("Internal server error"))
handle_exception == Response(500, ErrorBody("An unexpected error occurred"))

-----------------------------------------------------------------------------
(* Routing and dispatch: the @app.route rules and Flask's error handling *)

seg_ping == <<"p", "i", "n", "g">>
seg_wol == <<"w", "o", "l">>
seg_static == <<"s", "t", "a", "t", "i", "c">>

\* A URL path is the sequence of the segments that follow each of its "/",
\* empty where nothing stands between a "/" and the next one or the end:
\* "/" is <<<<>>>>, "/wol" <<seg_wol>>, "/wol/" <<seg_wol, <<>>>>, "//wol"
\* <<<<>>, seg_wol>>.
path_root == <<<<>>>>

\* "/" + path_info.lstrip("/"): the path the routing map matches has one
\* slash in front, however many the URL has.
RECURSIVE lstrip_slashes(_)
lstrip_slashes(path) ==
    IF Len(path) > 1 /\ path[1] = <<>> THEN lstrip_slashes(Tail(path)) ELSE path

\* The rule a path matches ("" when none): '/', '/ping/<ip_address>', '/wol'
\* and the '/static/<path:filename>' of Flask(__name__).  <ip_address> takes
\* one non-empty segment; <path:filename> takes the rest of the path, which
\* does not begin with a slash and has no newline after its first character
\* ('[^/].*?'); no rule ends in a slash, and a path with a slash more than
\* its rule matches nothing.
MatchRule(path) ==
    CASE path = path_root -> "health_check"
      [] Len(path) = 2 /\ path[1] = seg_ping /\ path[2] # <<>> -> "ping_host"
      [] path = <<seg_wol>> -> "wake_on_lan"
      [] Len(path) >= 2 /\ path[1] = seg_static /\ path[2] # <<>>
            /\ \A i \in 2..Len(path) : \A j \in 1..Len(path[i]) :
                    path[i][j] = "\n" => (i = 2 /\ j = 1) -> "static"
      [] OTHER -> ""

\* methods=[...] of each rule, with the HEAD that goes with GET and the
\* OPTIONS Flask adds to every rule.
RuleMethods(rule) ==
    IF rule = "wake_on_lan" THEN {"POST", "OPTIONS"} ELSE {"GET", "HEAD", "OPTIONS"}

\* The path with its doubled slashes made single, pair by pair from the left
\* (the routing map's merge_slashes).
RECURSIVE merge_slashes(_)
merge_slashes(path) ==
    IF Len(path) <= 1 THEN path
    ELSE IF path[1] = <<>> THEN <<path[2]>> \o merge_slashes(Tail(Tail(path)))
    ELSE <<path[1]>> \o merge_slashes(Tail(path))

\* How the routing map answers a method and a path: the rule to dispatch to
\* (with the path it matched), a redirect to the merged path when that one
\* matches, MethodNotAllowed when a rule matches the path (as given or
\* merged) but not the method, NotFound.  The empty path (<<>>, no slash at
\* all) is redirected to "/" for a method the rule '/' takes.
MatchRequest(method, path_info) ==
    LET path == lstrip_slashes(path_info)
        rule == MatchRule(path)
        merged == merge_slashes(path)
        again == MatchRule(merged)
    IN CASE path_info = <<>> ->
                IF method \in RuleMethods("health_check")
                THEN [to |-> "RequestRedirect", path |-> path_root]
                ELSE [to |-> "NotFound", path |-> path_info]
         [] path_info # <<>> /\ rule # "" /\ method \in RuleMethods(rule) ->
                [to |-> rule, path |-> path]
         [] OTHER ->
            CASE again # "" /\ method \in RuleMethods(again) ->
                    [to |-> "RequestRedirect", path |-> merged]
              [] OTHER ->
                    IF rule # "" \/ again # ""
                    THEN [to |-> "MethodNotAllowed", path |-> path]
                    ELSE [to |-> "NotFound", path |-> path]

\* A response without content.
EmptyBody == [content |-> <<>>]

\* The redirect the routing map asks for is sent as it is: 308, with the
\* Location header.
redirect(path) == Response(308, [location |-> path])

\* Flask's answer to OPTIONS on a rule: 200 and the Allow header, no content;
\* neither the key check nor the view runs.
make_default_options_response(rule) ==
    Response(200, [allow |-> RuleMethods(rule), content |-> <<>>])

\* The content of the response to a HEAD request is not sent; the status and
\* the headers (Location, Allow) are.
head_response(method, response) ==
    IF method # "HEAD" THEN response
    ELSE IF "location" \in DOMAIN response.body
    THEN Response(response.code, [location |-> response.body.location, content |-> <<>>])
    ELSE Response(response.code, EmptyBody)

\* The view of the static rule: no file is found, NotFound is raised and
\* goes to the handler registered for 404.
send_static_file == Respond(not_found)

\* Flask: NotFound goes to the handler registered for 404; an exception with
\* no handler for its code (MethodNotAllowed, one raised in a view) goes to
\* the handler registered for Exception.
HandleRaise(d) == IF d.act = "raise" THEN [d EXCEPT !.act = "respond", !.resp = handle_exception] ELSE d

\* The decorated view: the key check, then the wrapped function.
Protected(r, api_key, view) ==
    LET gate == require_api_key(r.key, api_key)
    IN IF gate.act = "pass" THEN [view EXCEPT !.ran = TRUE] ELSE gate

full_dispatch_request(r, api_key) ==
    LET m == MatchRequest(r.method, r.path)
        d == CASE m.to = "NotFound" -> Respond(not_found)
               [] m.to = "MethodNotAllowed" -> Respond(handle_exception)
               [] m.to = "RequestRedirect" -> Respond(redirect(m.path))
               [] m.to \notin {"NotFound", "MethodNotAllowed", "RequestRedirect"}
                     /\ r.method = "OPTIONS" -> Respond(make_default_options_response(m.to))
               [] OTHER ->
                    HandleRaise(
                        CASE m.to = "health_check" -> health_check
                          [] m.to = "static" -> send_static_file
                          [] m.to = "ping_host" ->
                                Protected(r, api_key, ping_host_begin(m.path[2]))
                          [] OTHER ->
                                Protected(r, api_key, wake_on_lan_begin(r.body)))
    IN IF d.act = "respond" THEN [d EXCEPT !.resp = head_response(r.method, @)] ELSE d

-----------------------------------------------------------------------------
(* The requests the model serves *)

Keys == {"s3cret", "other"}

\* X-API-Key: absent, empty, each configured key, a key that differs in case.
KeyHeaders == {<<>>, <<"">>, <<"s3cret">>, <<"other">>, <<"S3CRET">>}

\* Three of the characters strip() removes: U+000B (line tabulation), U+00A0
\* (no-break space) and U+1680 (ogham space mark).
VT == ""
NBSP == " "
OGHAM == " "

ip_ok == <<"1", "0", ".", "0", ".", "0", ".", "7">>
ip_padded == ip_ok \o <<" ">>
ip_vt == ip_ok \o <<VT>>
ip_nbsp == <<NBSP>> \o ip_ok
ip_octet == <<"1", "0", ".", "0", ".", "0", ".", "2", "5", "6">>
ip_host == <<"p", "i">>
ip_inject == ip_ok \o <<";", "i", "d">>
PathIps == {ip_ok, ip_padded, ip_vt, ip_nbsp, ip_octet, ip_host, ip_inject}

mac_colon == <<"A", "A", ":", "b", "b", ":", "0", "C", ":", "D", "1", ":", "e", "E", ":", "F", "9">>
mac_bare == <<"a", "a", "b", "b", "c", "c", "d", "d", "e", "e", "f", "f">>
mac_padded == <<" ">> \o mac_bare \o <<" ">>
mac_vt == mac_bare \o <<VT>>
mac_mixed == <<"A", "A", ":", "B", "B", "-", "C", "C", ":", "D", "D", ":", "E", "E", ":", "F", "F">>
mac_bad == <<"b", "a", "d">>

Body(ctype, kind, n, fields) == [ctype |-> ctype, kind |-> kind, n |-> n, fields |-> fields]
Field(key, val) == [key |-> key, val |-> val]
MacBody(val) == Body("json", "object", 0, <<Field("mac_address", val)>>)
NoBody == Body("none", "absent", 0, <<>>)

WolBodies ==
    { NoBody,
      Body("json", "absent", 0, <<>>),
      Body("json", "malformed", 0, <<>>),
      Body("none", "object", 0, <<Field("mac_address", PyStr(mac_colon))>>),
      Body("json", "null", 0, <<>>),
      Body("json", "object", 0, <<>>),
      Body("json", "object", 0, <<Field("other", PyStr(mac_colon))>>),
      Body("json", "array", 0, <<>>),
      Body("json", "array", 1, <<>>),
      Body("json", "number", 5, <<>>),
      Body("json", "string", 3, <<>>),
      Body("json", "boolean", 1, <<>>),
      MacBody(PyStr(<<>>)),
      MacBody(PyNone),
      MacBody(PyInt(123)),
      MacBody(PyStr(mac_bad)),
      MacBody(PyStr(mac_mixed)),
      MacBody(PyStr(mac_colon)),
      MacBody(PyStr(mac_bare)),
      MacBody(PyStr(mac_padded)),
      MacBody(PyStr(mac_vt)) }

Request(method, path, key, body) ==
    [method |-> method, path |-> path, key |-> key, body |-> body]

Methods == {"GET", "HEAD", "POST", "DELETE", "OPTIONS"}
\* /, /wol, /ping/10.0.0.7, /ping, /ping/10.0.0.7/wol, /wol/ping, /bogus,
\* /wol/, /ping/, /ping/10.0.0.7/, //wol, /ping//10.0.0.7, //, ///wol,
\* //ping/10.0.0.7, /static/x, /static/a/b, /static/, /static//x,
\* /static/a%0Ab, and the empty path
Paths ==
    { path_root, <<seg_wol>>, <<seg_ping, ip_ok>>, <<seg_ping>>, <<seg_ping, ip_ok, seg_wol>>,
      <<seg_wol, seg_ping>>, <<<<"b", "o", "g", "u", "s">>>>,
      <<seg_wol, <<>>>>, <<seg_ping, <<>>>>, <<seg_ping, ip_ok, <<>>>>,
      <<<<>>, seg_wol>>, <<seg_ping, <<>>, ip_ok>>, <<<<>>, <<>>>>, <<<<>>, <<>>, seg_wol>>,
      <<<<>>, seg_ping, ip_ok>>, <<seg_static, <<"x">>>>, <<seg_static, <<"a">>, <<"b">>>>,
      <<seg_static, <<>>>>, <<seg_static, <<>>, <<"x">>>>,
      <<seg_static, <<"a", "\n", "b">>>>, <<>> }

RoutingRequests ==
    {Request(m, p, k, NoBody) : m \in Methods, p \in Paths, k \in {<<>>, <<"s3cret">>}}
PingRequests ==
    {Request("GET", <<seg_ping, ip>>, k, NoBody) : ip \in PathIps, k \in {<<>>, <<"s3cret">>}}
    \cup {Request("GET", <<seg_ping, ip>>, k, NoBody) : ip \in {ip_ok, ip_host}, k \in KeyHeaders}
WolRequests ==
    {Request("POST", <<seg_wol>>, k, b) : b \in WolBodies, k \in {<<>>, <<"s3cret">>}}
    \cup {Request("POST", <<seg_wol>>, k, b) :
            b \in {NoBody, MacBody(PyStr(mac_colon)), MacBody(PyStr(mac_bad))}, k \in KeyHeaders}
\* Slashes in front of the path: //wol with a body, //ping/10.0.0.7 .
SlashRequests ==
    {Request("POST", <<<<>>, seg_wol>>, k, MacBody(PyStr(mac_colon))) : k \in {<<>>, <<"s3cret">>}}
Requests == RoutingRequests \cup PingRequests \cup WolRequests \cup SlashRequests

NoReq == Request("", <<>>, <<>>, NoBody)

\* Exit codes of the ping subprocess are 0..MaxExitCode.
MaxExitCode == 2
\* What varies without being looked at: ping's output, an exception's text.
Details == {"detail-a", "detail-b"}

\* Nothing answered yet.
NoLast == [req |-> NoReq, outcome |-> NoOutcome, resp |-> NoResp]

-----------------------------------------------------------------------------
(* The server *)

Init ==
    /\ API_KEY \in Keys
    /\ pc = [w \in Workers |-> "idle"]
    /\ req = [w \in Workers |-> NoReq]
    /\ resp = [w \in Workers |-> NoResp]
    /\ ran = [w \in Workers |-> FALSE]
    /\ ext = [w \in Workers |-> <<>>]
    /\ outcome = [w \in Workers |-> NoOutcome]
    /\ ipArg = PyNone
    /\ ipResult = <<>>
    /\ macArg = PyNone
    /\ macResult = <<>>
    /\ last = NoLast

\* A worker takes a request.
Receive(w, r) ==
    /\ pc[w] = "idle"
    /\ pc' = [pc EXCEPT ![w] = "received"]
    /\ req' = [req EXCEPT ![w] = r]
    /\ UNCHANGED <<API_KEY, resp, ran, ext, outcome, ipVars, macVars, last>>

\* Flask dispatches it: routing, the key check, the view up to its answer or
\* to the call of the external operation.  How many requests the server
\* serves at one time is its configuration (the server app.run starts, or
\* the one that imports app), which app.py does not set: the workers are
\* the requests in service together, and a server that serves them one at
\* a time has the behaviours in which only one worker is ever busy.
Dispatch(w) ==
    /\ pc[w] = "received"
    /\ LET d == full_dispatch_request(req[w], API_KEY)
       IN /\ ran' = [ran EXCEPT ![w] = d.ran]
          /\ IF d.act = "respond"
             THEN /\ pc' = [pc EXCEPT ![w] = "responded"]
                  /\ resp' = [resp EXCEPT ![w] = d.resp]
                  /\ UNCHANGED ext
             ELSE /\ pc' = [pc EXCEPT ![w] = d.act]
                  /\ ext' = [ext EXCEPT ![w] =
                        Append(@, IF d.act = "ping" THEN PingCall(d.arg) ELSE WolCall(d.arg))]
                  /\ UNCHANGED resp
    /\ UNCHANGED <<API_KEY, req, outcome, ipVars, macVars, last>>

\* subprocess.run ends with outcome o; ping_host answers.
PingEnds(w, o) ==
    /\ pc[w] = "ping"
    /\ outcome' = [outcome EXCEPT ![w] = o]
    /\ resp' = [resp EXCEPT ![w] = head_response(req[w].method, ping_host_complete(ext[w][1].argv[6], o))]
    /\ pc' = [pc EXCEPT ![w] = "responded"]
    /\ UNCHANGED <<API_KEY, req, ran, ext, ipVars, macVars, last>>

\* The subprocess exits with a return code.
PingExit(w) ==
    \E code \in 0..MaxExitCode, out \in Details :
        PingEnds(w, [kind |-> "exit", code |-> code, detail |-> out])

\* A variant that runs ping once more after a first timeout.
PingTimeoutRetry(w) ==
    IF pc[w] = "ping" /\ Len(ext[w]) < 2
    THEN /\ ext' = [ext EXCEPT ![w] = Append(@, PingCall(ext[w][1].argv[6]))]
         /\ UNCHANGED <<API_KEY, pc, req, resp, ran, outcome, ipVars, macVars, last>>
    ELSE PingEnds(w, [kind |-> "timeout", code |-> 0, detail |-> ""])

\* subprocess.TimeoutExpired after the 5 s overall timeout.
PingTimeout(w) == PingEnds(w, [kind |-> "timeout", code |-> 0, detail |-> ""])

\* Any other exception of subprocess.run (the executable is missing, ...).
PingError(w) ==
    \E text \in Details : PingEnds(w, [kind |-> "error", code |-> 0, detail |-> text])

\* send_magic_packet ends with outcome o; wake_on_lan answers.
SendEnds(w, o) ==
    /\ pc[w] = "wol"
    /\ outcome' = [outcome EXCEPT ![w] = o]
    /\ resp' = [resp EXCEPT ![w] = head_response(req[w].method, wake_on_lan_complete(ext[w][1].argv[1], o))]
    /\ pc' = [pc EXCEPT ![w] = "responded"]
    /\ UNCHANGED <<API_KEY, req, ran, ext, ipVars, macVars, last>>

SendOk(w) == SendEnds(w, [kind |-> "sent", code |-> 0, detail |-> ""])

\* send_magic_packet raises (a MAC it cannot parse, a socket error).
SendError(w) ==
    \E text \in Details : SendEnds(w, [kind |-> "error", code |-> 0, detail |-> text])

\* The response is written out and the worker is free again.
Reply(w) ==
    /\ pc[w] = "responded"
    /\ pc' = [pc EXCEPT ![w] = "idle"]
    /\ req' = [req EXCEPT ![w] = NoReq]
    /\ resp' = [resp EXCEPT ![w] = NoResp]
    /\ ran' = [ran EXCEPT ![w] = FALSE]
    /\ ext' = [ext EXCEPT ![w] = <<>>]
    /\ outcome' = [outcome EXCEPT ![w] = NoOutcome]
    /\ UNCHANGED <<API_KEY, ipVars, macVars, last>>

Next ==
    \E w \in Workers :
        \/ \E r \in Requests : Receive(w, r)
        \/ Dispatch(w)
        \/ PingExit(w)
        \/ PingTimeout(w)
        \/ PingError(w)
        \/ SendOk(w)
        \/ SendError(w)
        \/ Reply(w)

Spec == Init /\ [][Next]_vars

-----------------------------------------------------------------------------
(* The server, remembering the request it answered last *)

\* A few requests, sent again and again.
RepeatedRequests ==
    { Request("GET", <<seg_ping, ip_ok>>, <<"s3cret">>, NoBody),
      Request("GET", <<seg_ping, ip_ok>>, <<>>, NoBody),
      Request("GET", <<seg_ping, ip_host>>, <<"s3cret">>, NoBody),
      Request("POST", <<seg_wol>>, <<"s3cret">>, MacBody(PyStr(mac_colon))),
      Request("POST", <<seg_wol>>, <<"s3cret">>, Body("json", "object", 0, <<>>)),
      Request("GET", path_root, <<>>, NoBody) }

\* Reply, noting what was answered.
ReplyRecorded(w) ==
    /\ pc[w] = "responded"
    /\ last' = [req |-> req[w], outcome |-> outcome[w], resp |-> resp[w]]
    /\ pc' = [pc EXCEPT ![w] = "idle"]
    /\ req' = [req EXCEPT ![w] = NoReq]
    /\ resp' = [resp EXCEPT ![w] = NoResp]
    /\ ran' = [ran EXCEPT ![w] = FALSE]
    /\ ext' = [ext EXCEPT ![w] = <<>>]
    /\ outcome' = [outcome EXCEPT ![w] = NoOutcome]
    /\ UNCHANGED <<API_KEY, ipVars, macVars>>

NextSeq ==
    \E w \in Workers :
        \/ \E r \in RepeatedRequests : Receive(w, r)
        \/ Dispatch(w)
        \/ PingExit(w)
        \/ PingTimeout(w)
        \/ PingError(w)
        \/ SendOk(w)
        \/ SendError(w)
        \/ ReplyRecorded(w)

SpecSeq == Init /\ [][NextSeq]_vars

-----------------------------------------------------------------------------
(* The server when no ping subprocess ever exits on its own *)

\* subprocess.run returns only through its timeout.
NextHang ==
    \E w \in Workers :
        \/ \E r \in RepeatedRequests : Receive(w, r)
        \/ Dispatch(w)
        \/ PingTimeout(w)
        \/ SendOk(w)
        \/ SendError(w)
        \/ Reply(w)

\* A request's thread keeps running; subprocess.run(timeout=5) raises
\* TimeoutExpired after 5 s; send_magic_packet returns or raises.
FairHang ==
    \A w \in Workers :
        /\ WF_vars(Dispatch(w))
        /\ WF_vars(PingTimeout(w))
        /\ WF_vars(SendOk(w) \/ SendError(w))

SpecHang == Init /\ [][NextHang]_vars /\ FairHang

-----------------------------------------------------------------------------
(* Calls of validate_ip_address on its own *)

\* Addresses have at most MaxParts dot-separated parts.
MaxParts == 5

PlainOctets == {<<"7">>, <<"2", "5", "5">>}
OctetTokens ==
    PlainOctets \cup
    {
      <<"0">>, <<"7">>, <<"0", "0">>, <<"0", "0", "0">>, <<"0", "0", "0", "0">>,
      <<"0", "0", "7">>, <<"0", "0", "0", "1">>, <<"1", "9">>, <<"9", "9">>,
      <<"1", "0", "0">>, <<"1", "9", "9">>, <<"2", "0", "0">>, <<"2", "4", "9">>,
      <<"2", "5", "0">>, <<"2", "5", "5">>, <<"2", "5", "6">>, <<"2", "6", "0">>,
      <<"3", "0", "0">>, <<"9", "9", "9">>, <<"1", "0", "0", "0">>, <<>>, <<"a">>,
      <<"1", "a">>, <<"-", "1">>, <<"+", "1">>, <<"1", " ">>, <<"0", "x", "1">>,
      <<"1", "/", "2", "4">>, <<":", ":", "1">>, <<"p", "i">> }

RECURSIVE JoinDots(_)
JoinDots(parts) ==
    IF Len(parts) = 0 THEN <<>>
    ELSE IF Len(parts) = 1 THEN parts[1]
    ELSE JoinDots(SubSeq(parts, 1, Len(parts) - 1)) \o <<".">> \o parts[Len(parts)]

\* 1..MaxParts parts, at most one of them other than a plain octet.
PartLists ==
    UNION {{[plain EXCEPT ![i] = tok] :
                plain \in [1..n -> PlainOctets], i \in 1..n, tok \in OctetTokens} :
           n \in 1..MaxParts}

LeftPads == {<<>>, <<" ">>, <<"\n", "\t">>}
RightPads == {<<>>, <<" ">>, <<"\n">>}

\* Padding with the other characters strip() removes.
OtherPads == {<<>>, <<VT>>, <<NBSP>>, <<"", "">>, <<OGHAM>>, <<"U+2003">>, <<" ", "U+3000">>}
PaddedOctets == {<<"7">>, <<"7", VT>>, <<NBSP, "7">>, <<"2", "5", "5">>}

IpInputs ==
    {PyStr(l \o JoinDots(parts) \o r) : l \in LeftPads, parts \in PartLists, r \in RightPads}
    \cup {PyStr(l \o JoinDots(parts) \o r) :
            l \in OtherPads, r \in OtherPads,
            parts \in {[[i \in 1..4 |-> <<"7">>] EXCEPT ![k] = tok] :
                          k \in 1..4, tok \in PaddedOctets}}
    \cup {PyStr(<<>>), PyNone, PyInt(0), PyInt(7), PyBool(TRUE), PyList(4)}

InitIp ==
    /\ API_KEY = "s3cret"
    /\ pc = [w \in Workers |-> "idle"]
    /\ req = [w \in Workers |-> NoReq]
    /\ resp = [w \in Workers |-> NoResp]
    /\ ran = [w \in Workers |-> FALSE]
    /\ ext = [w \in Workers |-> <<>>]
    /\ outcome = [w \in Workers |-> NoOutcome]
    /\ ipArg \in IpInputs
    /\ ipResult = <<>>
    /\ macArg = PyNone
    /\ macResult = <<>>
    /\ last = NoLast

CallValidateIp ==
    /\ ipResult = <<>>
    /\ ipResult' = <<validate_ip_address(ipArg)>>
    /\ UNCHANGED <<serverVars, ipArg, macVars, last>>

SpecIp == InitIp /\ [][CallValidateIp]_vars

-----------------------------------------------------------------------------
(* Calls of validate_mac_address on its own *)

\* Addresses have at most MaxGroups groups.
MaxGroups == 7

PlainGroup == <<"a", "F">>
GroupTokens ==
    { PlainGroup, <<"0", "9">>, <<"C", "d">>, <<"e", "E">>, <<"B", "b">>,
      <<"0", "g">>, <<"G", "0">>, <<"x", "y">>, <<"A">>, <<"A", "A", "A">>, <<>>,
      <<"A", " ">>, <<"0", ".">> }
Separators == {<<":">>, <<"-">>, <<>>}
OtherSeparators == Separators \cup {<<".">>, <<" ">>, <<":", ":">>}

\* groups[1] seps[1] groups[2] ... seps[n-1] groups[n]
RECURSIVE JoinGroups(_, _)
JoinGroups(groups, seps) ==
    IF Len(groups) = 0 THEN <<>>
    ELSE IF Len(groups) = 1 THEN groups[1]
    ELSE JoinGroups(SubSeq(groups, 1, Len(groups) - 1), seps)
            \o seps[Len(groups) - 1] \o groups[Len(groups)]

\* 1..MaxGroups groups with one separator throughout and at most one group
\* other than the plain one, or plain groups with one separator that differs.
MacTexts ==
    UNION {
        {JoinGroups([[i \in 1..n |-> PlainGroup] EXCEPT ![k] = g], [i \in 1..n |-> sep]) :
            k \in 1..n, g \in GroupTokens, sep \in Separators}
        \cup
        {JoinGroups([i \in 1..n |-> PlainGroup], [[i \in 1..n |-> sep] EXCEPT ![k] = other]) :
            k \in 1..n, sep \in Separators, other \in OtherSeparators}
        : n \in 1..MaxGroups}

MacInputs ==
    {PyStr(l \o m \o r) : l \in LeftPads, m \in MacTexts, r \in RightPads}
    \cup {PyStr(l \o m \o r) :
            l \in OtherPads, r \in OtherPads,
            m \in {mac_colon, mac_bare, mac_mixed, mac_bad,
                    JoinGroups(<<PlainGroup, PlainGroup, PlainGroup \o <<VT>>, PlainGroup,
                                 PlainGroup, PlainGroup>>, [i \in 1..6 |-> <<"-">>])}}
    \cup {PyStr(<<>>), PyNone, PyInt(0), PyInt(123), PyBool(TRUE), PyList(6)}

InitMac ==
    /\ API_KEY = "s3cret"
    /\ pc = [w \in Workers |-> "idle"]
    /\ req = [w \in Workers |-> NoReq]
    /\ resp = [w \in Workers |-> NoResp]
    /\ ran = [w \in Workers |-> FALSE]
    /\ ext = [w \in Workers |-> <<>>]
    /\ outcome = [w \in Workers |-> NoOutcome]
    /\ ipArg = PyNone
    /\ ipResult = <<>>
    /\ macArg \in MacInputs
    /\ macResult = <<>>
    /\ last = NoLast

CallValidateMac ==
    /\ macResult = <<>>
    /\ macResult' = <<validate_mac_address(macArg)>>
    /\ UNCHANGED <<serverVars, ipVars, macArg, last>>

SpecMac == InitMac /\ [][CallValidateMac]_vars

-----------------------------------------------------------------------------
(* Vocabulary of the properties, stated on requests and responses alone *)

\* {ip} is one non-empty path segment.
IsPingPath(path) == Len(path) = 2 /\ path[1] = seg_ping /\ path[2] # <<>>
IsPingRequest(r) == r.method = "GET" /\ IsPingPath(r.path)
\* The path with one slash in front: //wol is /wol.
OneSlash(path) ==
    IF path = <<>> THEN path
    ELSE LET first == CHOOSE i \in 1..Len(path) :
                        /\ \A j \in 1..(i - 1) : path[j] = <<>>
                        /\ (path[i] # <<>> \/ i = Len(path))
         IN SubSeq(path, first, Len(path))
IsWolRequest(r) == r.method = "POST" /\ r.path = <<seg_wol>>
IsHealthRequest(r) == r.method = "GET" /\ r.path = path_root
IsProtectedRequest(r) == IsPingRequest(r) \/ IsWolRequest(r)

Authenticated(r) == r.key = <<API_KEY>>

Answered(w) == pc[w] = "responded"
AnsweredError(w, code, message) ==
    resp[w] = [code |-> code, body |-> [status |-> "error", message |-> <<message>>]]

\* The body reached the view as a parsed JSON value.
ParsedAsJson(b) == b.ctype = "json" /\ b.kind \notin {"absent", "malformed"}
HasMacField(b) ==
    b.kind = "object" /\ \E i \in 1..Len(b.fields) : b.fields[i].key = "mac_address"
MacField(b) == b.fields[CHOOSE i \in 1..Len(b.fields) : b.fields[i].key = "mac_address"].val
\* A mac_address field is there and its value is not empty (not "", null, 0, []).
HasNonEmptyMac(b) == HasMacField(b) /\ Truthy(MacField(b))

Contains(s, sub) == \E i \in 0..(Len(s) - Len(sub)) : SubSeq(s, i + 1, i + Len(sub)) = sub

-----------------------------------------------------------------------------
(* C1 *)

\* C1: the wrapped handler runs, and a ping subprocess is spawned or a magic
\* packet is sent, only for a request whose X-API-Key header equals the
\* configured key; a request to GET /ping/{ip} or POST /wol without the key or
\* with another key is answered 401 and starts no external operation,
\* whatever its path parameter or body.
AuthenticationGate ==
    \A w \in Workers :
        /\ (ran[w] \/ ext[w] # <<>> \/ pc[w] \in {"ping", "wol"}) => Authenticated(req[w])
        /\ (Answered(w) /\ IsProtectedRequest(req[w]) /\ ~Authenticated(req[w]))
              => resp[w].code = 401 /\ ext[w] = <<>> /\ ~ran[w]

\* An invalid IP without a key is answered 401 while an authenticated ping runs.
AuthenticationGateWitness ==
    \E w, v \in Workers :
        /\ Answered(w) /\ req[w] = Request("GET", <<seg_ping, ip_host>>, <<>>, NoBody)
        /\ resp[w].code = 401 /\ ext[w] = <<>>
        /\ pc[v] = "ping" /\ ran[v] /\ Authenticated(req[v])

-----------------------------------------------------------------------------
(* C2 *)

\* C2 as stated: without the header the answer is 401 "API key required";
\* with a header of any value other than the key, the empty string included,
\* it is 401 "Invalid API key".
AuthenticationMessagesAsStated ==
    \A w \in Workers :
        (Answered(w) /\ IsProtectedRequest(req[w])) =>
            /\ req[w].key = <<>> => AnsweredError(w, 401, "API key required")
            /\ (req[w].key # <<>> /\ req[w].key # <<API_KEY>>)
                  => AnsweredError(w, 401, "Invalid API key")

\* C2 amended: without the header, or with an empty header value, the answer
\* is 401 "API key required"; with a non-empty header value other than the
\* key it is 401 "Invalid API key".
AuthenticationMessages ==
    \A w \in Workers :
        (Answered(w) /\ IsProtectedRequest(req[w])) =>
            /\ (req[w].key = <<>> \/ req[w].key = <<"">>)
                  => AnsweredError(w, 401, "API key required")
            /\ (req[w].key \notin {<<>>, <<"">>, <<API_KEY>>})
                  => AnsweredError(w, 401, "Invalid API key")

\* An empty header is answered "API key required", a wrong key "Invalid API key".
AuthenticationMessagesWitness ==
    \E w, v \in Workers :
        /\ Answered(w) /\ IsProtectedRequest(req[w]) /\ req[w].key = <<"">>
        /\ AnsweredError(w, 401, "API key required")
        /\ Answered(v) /\ IsProtectedRequest(req[v]) /\ req[v].key = <<"S3CRET">>
        /\ AnsweredError(v, 401, "Invalid API key")

-----------------------------------------------------------------------------
(* C3 *)

\* C3: the ping subprocess is started only for a path parameter the IPv4
\* validator accepts, and the packet is sent only for a body that parsed as
\* JSON and holds a non-empty mac_address the MAC validator accepts; an
\* authenticated GET /ping/{ip} whose ip the validator rejects is answered
\* 400 "Invalid IP address format.", and an authenticated POST /wol whose
\* (non-empty) mac_address the validator rejects is answered 400 "Invalid MAC
\* address format."; neither starts an external operation.
ValidationPrecedesOperation ==
    \A w \in Workers :
        /\ \A i \in 1..Len(ext[w]) :
              /\ ext[w][i].op = "subprocess.run" =>
                    /\ IsPingPath(OneSlash(req[w].path))
                    /\ validate_ip_address(PyStr(OneSlash(req[w].path)[2]))
              /\ ext[w][i].op = "send_magic_packet" =>
                    /\ req[w].method = "POST" /\ OneSlash(req[w].path) = <<seg_wol>>
                    /\ ParsedAsJson(req[w].body)
                    /\ HasNonEmptyMac(req[w].body)
                    /\ validate_mac_address(MacField(req[w].body))
        /\ pc[w] = "ping" => Len(ext[w]) = 1 /\ ext[w][1].op = "subprocess.run"
        /\ pc[w] = "wol" => Len(ext[w]) = 1 /\ ext[w][1].op = "send_magic_packet"
        /\ (Answered(w) /\ IsPingRequest(req[w]) /\ Authenticated(req[w])
              /\ ~validate_ip_address(PyStr(req[w].path[2])))
              => AnsweredError(w, 400, "Invalid IP address format.") /\ ext[w] = <<>>
        /\ (Answered(w) /\ IsWolRequest(req[w]) /\ Authenticated(req[w])
              /\ ParsedAsJson(req[w].body) /\ HasNonEmptyMac(req[w].body)
              /\ ~validate_mac_address(MacField(req[w].body)))
              => AnsweredError(w, 400, "Invalid MAC address format.") /\ ext[w] = <<>>

\* An authenticated ping of 10.0.0.256 and an authenticated wake of "bad"
\* were both answered 400.
ValidationPrecedesOperationWitness ==
    \E w, v \in Workers :
        /\ Answered(w) /\ Authenticated(req[w])
        /\ req[w].method = "GET" /\ req[w].path = <<seg_ping, ip_octet>>
        /\ resp[w].code = 400 /\ ext[w] = <<>>
        /\ Answered(v) /\ Authenticated(req[v]) /\ IsWolRequest(req[v])
        /\ req[v].body = MacBody(PyStr(mac_bad))
        /\ resp[v].code = 400 /\ ext[v] = <<>>

-----------------------------------------------------------------------------
(* C4 *)

\* C4: an authenticated POST /wol whose body is a JSON object without a
\* non-empty mac_address field (the field is absent, as in {}, or its value
\* is empty) is answered 400 "Missing mac_address field in request body".
MissingMacAnswered ==
    \A w \in Workers :
        (Answered(w) /\ IsWolRequest(req[w]) /\ Authenticated(req[w])
            /\ ParsedAsJson(req[w].body) /\ req[w].body.kind = "object"
            /\ ~HasNonEmptyMac(req[w].body))
            => AnsweredError(w, 400, "Missing mac_address field in request body")

-----------------------------------------------------------------------------
(* C5 *)

\* C5: an authenticated POST /wol whose body is absent or does not parse as
\* JSON is answered 400 "Request body must be JSON", not 500.
UnparseableBodyAnswered ==
    \A w \in Workers :
        (Answered(w) /\ IsWolRequest(req[w]) /\ Authenticated(req[w])
            /\ req[w].body.kind \in {"absent", "malformed"})
            => AnsweredError(w, 400, "Request body must be JSON")

-----------------------------------------------------------------------------
(* C6 *)

\* C6: an authenticated GET /ping/{ip} with a valid ip is answered by the
\* outcome of the subprocess alone: exit 0 gives 200 online, a non-zero exit
\* 200 offline, the 5 s timeout 200 offline, any other failure 500 "Internal
\* error executing ping"; ip_address in a 200 is the address requested.
PingOutcomeMapping ==
    \A w \in Workers :
        (Answered(w) /\ IsPingRequest(req[w]) /\ Authenticated(req[w])
            /\ validate_ip_address(PyStr(req[w].path[2])))
            => LET ip == req[w].path[2]
                   o == outcome[w]
                   online == [code |-> 200, body |-> [ip_address |-> ip, status |-> "online"]]
                   offline == [code |-> 200, body |-> [ip_address |-> ip, status |-> "offline"]]
               IN /\ o.kind \in {"exit", "timeout", "error"}
                  /\ ext[w] = <<PingCall(ip)>> /\ ext[w][1].timeout = 5
                  /\ (o.kind = "exit" /\ o.code = 0) => resp[w] = online
                  /\ (o.kind = "exit" /\ o.code # 0) => resp[w] = offline
                  /\ o.kind = "timeout" => resp[w] = offline
                  /\ o.kind = "error" =>
                        AnsweredError(w, 500, "Internal error executing ping")

\* One ping timed out and was answered offline; another exited non-zero and
\* got the same body.
PingOutcomeMappingWitness ==
    \E w, v \in Workers :
        /\ Answered(w) /\ IsPingRequest(req[w]) /\ outcome[w].kind = "timeout"
        /\ resp[w].code = 200 /\ resp[w].body.status = "offline"
        /\ Answered(v) /\ outcome[v].kind = "exit" /\ outcome[v].code = MaxExitCode
        /\ req[v] = req[w] /\ resp[v] = resp[w]

-----------------------------------------------------------------------------
(* C7 *)

\* C7: for an authenticated POST /wol whose mac_address the validator
\* accepts, the send is attempted exactly once, with the address as the
\* request gave it (surrounding whitespace included); a completed send is
\* answered 200 success with a message that contains the address, a failed
\* one 500 "Failed to send Wake-on-LAN packet".
WolOutcomeMapping ==
    \A w \in Workers :
        (IsWolRequest(req[w]) /\ Authenticated(req[w]) /\ ParsedAsJson(req[w].body)
            /\ HasNonEmptyMac(req[w].body) /\ validate_mac_address(MacField(req[w].body))
            /\ pc[w] \in {"wol", "responded"})
            => LET mac == MacField(req[w].body).s
               IN /\ ext[w] = <<WolCall(mac)>>
                  /\ Answered(w) => outcome[w].kind \in {"sent", "error"}
                  /\ (Answered(w) /\ outcome[w].kind = "sent") =>
                        /\ resp[w].code = 200 /\ resp[w].body.status = "success"
                        /\ Contains(resp[w].body.message, mac)
                  /\ (Answered(w) /\ outcome[w].kind = "error") =>
                        AnsweredError(w, 500, "Failed to send Wake-on-LAN packet")

\* A colon-separated address was sent and answered 200; a padded one reached
\* the sender with its padding, and the send failed.
WolOutcomeMappingWitness ==
    \E w, v \in Workers :
        /\ Answered(w) /\ req[w].body = MacBody(PyStr(mac_colon))
        /\ outcome[w].kind = "sent" /\ resp[w].code = 200
        /\ Answered(v) /\ req[v].body = MacBody(PyStr(mac_padded))
        /\ ext[v] = <<WolCall(mac_padded)>>
        /\ outcome[v].kind = "error" /\ resp[v].code = 500

-----------------------------------------------------------------------------
(* C8 *)

\* C8: a request whose method and path match none of GET /, GET /ping/{ip},
\* POST /wol is answered 404 "Endpoint not found", with or without a key.
UnmatchedAnswered404 ==
    \A w \in Workers :
        (Answered(w) /\ ~IsHealthRequest(req[w]) /\ ~IsProtectedRequest(req[w]))
            => AnsweredError(w, 404, "Endpoint not found")

-----------------------------------------------------------------------------
(* C9 *)

FixedMessages ==
    { "Internal error executing ping", "Failed to send Wake-on-LAN packet",
      "An unexpected error occurred", "Internal server error" }

\* wake_on_lan lets an exception escape: get_json raises, or the parsed body
\* is a non-empty value that is no object and has no get().
ViewRaises(r) ==
    /\ IsWolRequest(r) /\ Authenticated(r)
    /\ \/ ~ParsedAsJson(r.body)
       \/ r.body.kind \in {"array", "number", "string", "boolean"} /\ r.body.n # 0

\* C9: an exception a handler does not catch is answered 500 "An unexpected
\* error occurred"; the body of every 500 is {status: error, message: one of
\* the fixed messages} (the response to a HEAD request, which has no body,
\* carries nothing at all); two requests that differ only in the detail of
\* the external operation's outcome (the exception text, the ping output)
\* get the same response.
NoInternalDetail ==
    /\ \A w \in Workers :
          /\ (Answered(w) /\ ViewRaises(req[w]))
                => AnsweredError(w, 500, "An unexpected error occurred")
          /\ (Answered(w) /\ resp[w].code = 500)
                => IF req[w].method = "HEAD"
                   THEN resp[w].body = EmptyBody
                   ELSE \E m \in FixedMessages : AnsweredError(w, 500, m)
    /\ \A w, v \in Workers :
          (Answered(w) /\ Answered(v) /\ req[w] = req[v]
              /\ outcome[w].kind = outcome[v].kind /\ outcome[w].code = outcome[v].code)
              => resp[w] = resp[v]

\* Two pings of one address failed with different exception texts and got the
\* same 500.
NoInternalDetailWitness ==
    \E w, v \in Workers :
        /\ Answered(w) /\ Answered(v) /\ req[w] = req[v]
        /\ outcome[w].kind = "error" /\ outcome[v].kind = "error"
        /\ outcome[w].detail # outcome[v].detail
        /\ resp[w].code = 500 /\ resp[w] = resp[v]

-----------------------------------------------------------------------------
(* C10 *)

\* s without its leading and trailing whitespace.
Trimmed(s) ==
    LET keep == {i \in 1..Len(s) : s[i] \notin Whitespace}
    IN IF keep = {} THEN <<>>
       ELSE SubSeq(s, CHOOSE i \in keep : \A j \in keep : i <= j,
                      CHOOSE i \in keep : \A j \in keep : j <= i)

DigitValue(c) == CHOOSE n \in 0..9 : <<"0", "1", "2", "3", "4", "5", "6", "7", "8", "9">>[n + 1] = c

RECURSIVE DecimalValue(_)
DecimalValue(ds) ==
    IF ds = <<>> THEN 0
    ELSE 10 * DecimalValue(SubSeq(ds, 1, Len(ds) - 1)) + DigitValue(ds[Len(ds)])

\* A decimal octet: one to three decimal digits whose value is in 0..255.
IsOctet(p) ==
    /\ Len(p) \in 1..3
    /\ \A i \in 1..Len(p) : p[i] \in Digits
    /\ DecimalValue(p) <= 255

\* Four octets separated by three dots, and nothing else.
IsDottedQuad(s) ==
    \E a, b, c \in 1..Len(s) :
        /\ a < b /\ b < c
        /\ {i \in 1..Len(s) : s[i] = "."} = {a, b, c}
        /\ IsOctet(SubSeq(s, 1, a - 1)) /\ IsOctet(SubSeq(s, a + 1, b - 1))
        /\ IsOctet(SubSeq(s, b + 1, c - 1)) /\ IsOctet(SubSeq(s, c + 1, Len(s)))

\* C10: validate_ip_address(s) is true exactly when s is a string that,
\* trimmed of surrounding whitespace, is four dot-separated decimal octets
\* (one to three digits each, value 0..255) and nothing else; so it is false
\* for "", a non-string, an octet above 255, three or five octets, IPv6, CIDR
\* and host names.
IpValidatorContract ==
    ipResult # <<>> =>
        ipResult[1] = (ipArg.t = "str" /\ IsDottedQuad(Trimmed(ipArg.s)))

\* A padded address with leading zeros was accepted.
IpValidatorContractWitness ==
    /\ ipResult = <<TRUE>>
    /\ ipArg.s = <<" ">> \o JoinDots(<<<<"7">>, <<"0", "0", "7">>, <<"2", "5", "5">>, <<"7">>>>) \o <<"\n">>

-----------------------------------------------------------------------------
(* C11 *)

\* A hex digit, in either case.
IsHexDigit(c) ==
    \/ c \in Digits
    \/ \E i \in 1..6 : c = <<"A", "B", "C", "D", "E", "F">>[i] \/ c = <<"a", "b", "c", "d", "e", "f">>[i]

\* Six groups of two hex digits with sep between them: 17 characters.
IsGroupedMac(s, sep) ==
    /\ Len(s) = 17
    /\ \A i \in 1..17 : IF i % 3 = 0 THEN s[i] = sep ELSE IsHexDigit(s[i])

\* Twelve hex digits.
IsBareMac(s) == Len(s) = 12 /\ \A i \in 1..12 : IsHexDigit(s[i])

\* C11: validate_mac_address(s) is true exactly when s is a string that,
\* trimmed of surrounding whitespace, is six 2-hex-digit groups separated by
\* colons, or by hyphens, or twelve contiguous hex digits, in either case;
\* mixed separators, another number of groups, a non-hex character, "" and a
\* non-string are rejected.
MacValidatorContract ==
    macResult # <<>> =>
        macResult[1] =
            /\ macArg.t = "str"
            /\ LET m == Trimmed(macArg.s)
               IN IsGroupedMac(m, ":") \/ IsGroupedMac(m, "-") \/ IsBareMac(m)

\* A padded hyphen-separated address in mixed case was accepted.
MacValidatorContractWitness ==
    /\ macResult = <<TRUE>>
    /\ macArg.s = <<" ">> \o JoinGroups(
            <<PlainGroup, PlainGroup, <<"C", "d">>, PlainGroup, PlainGroup, PlainGroup>>,
            [i \in 1..6 |-> <<"-">>]) \o <<"\n">>

-----------------------------------------------------------------------------
(* C12 *)

\* The response to the request of worker w agrees with the one given to the
\* same request answered last: the same external operation or none, and with
\* the same outcome the same response.
AgreesWithLast(w) ==
    (Answered(w) /\ req[w] = last.req) =>
        /\ (outcome[w].kind = "none") = (last.outcome.kind = "none")
        /\ outcome[w] = last.outcome => resp[w] = last.resp

\* C12: the configured API key never changes after start, and the response
\* to a request depends only on the request and on the outcome of its own
\* external operation: repeating a request, with the same outcome, gives the
\* same response, whatever was served before it or is being served beside it.
StatelessServer ==
    /\ [][API_KEY' = API_KEY]_vars
    /\ [](\A w \in Workers : AgreesWithLast(w))
    /\ [](\A w, v \in Workers :
            (Answered(w) /\ Answered(v) /\ req[w] = req[v] /\ outcome[w] = outcome[v])
                => resp[w] = resp[v])

\* A ping answered online is repeated with the same outcome and gets the same
\* response, while the other worker waits for a ping of its own.
StatelessServerWitness ==
    \E w, v \in Workers :
        /\ Answered(w) /\ req[w] = last.req /\ IsPingRequest(req[w])
        /\ outcome[w].kind = "exit" /\ outcome[w] = last.outcome
        /\ resp[w] = last.resp /\ resp[w].code = 200
        /\ pc[v] = "ping"

-----------------------------------------------------------------------------
(* C14 *)

\* C14: the address argument of every ping subprocess is itself four
\* dot-separated decimal octets in 0..255 and nothing else, with no leading
\* or trailing whitespace.
AddressUsedIsStrict ==
    \A w \in Workers :
        \A i \in 1..Len(ext[w]) :
            ext[w][i].op = "subprocess.run" =>
                IsDottedQuad(ext[w][i].argv[Len(ext[w][i].argv)])

-----------------------------------------------------------------------------
(* C15 *)

OfflineAnswer(w) ==
    resp[w] = [code |-> 200, body |-> [ip_address |-> req[w].path[2], status |-> "offline"]]

\* C15: a request whose ping subprocess never exits on its own is answered
\* 200 offline once the timeout expires, and every request taken is
\* answered; no external operation is tried again, and a response, once
\* given, is not replaced by another.
AnsweredOnceAndInTime ==
    /\ \A w \in Workers :
          (pc[w] = "ping") ~> (Answered(w) /\ outcome[w].kind = "timeout" /\ OfflineAnswer(w))
    /\ \A w \in Workers : (pc[w] \in {"received", "wol"}) ~> Answered(w)
    /\ [](\A w \in Workers : Len(ext[w]) <= 1 /\ (Answered(w) <=> resp[w] # NoResp))
    /\ [][\A w \in Workers :
            Answered(w) => \/ pc'[w] = "responded" /\ resp'[w] = resp[w]
                           \/ pc'[w] = "idle"]_vars

\* A ping that never exited was answered offline after its timeout, with one
\* subprocess started.
AnsweredOnceAndInTimeWitness ==
    \E w \in Workers :
        /\ Answered(w) /\ IsPingRequest(req[w]) /\ Authenticated(req[w])
        /\ outcome[w].kind = "timeout" /\ OfflineAnswer(w)
        /\ ext[w] = <<PingCall(ip_ok)>>

====
